---- MODULE Spec2Model ----
(***************************************************************************)
(* A model of sanzang.py: table loading, reflow, substitution, table-based *)
(* translation, and the three buffered file drivers.                       *)
(*                                                                         *)
(* A text is a sequence of characters.  A character is written as a        *)
(* string token: an ASCII character stands for itself ("a", "|", ".",      *)
(* " ", "\n", "\t"), every other character is named by its code point      *)
(* ("U+3000" is the full-width space, "U+2551" the margin bar, "U+001F"    *)
(* the unit separator used as sentinel).                                   *)
(***************************************************************************)
EXTENDS Integers, Sequences, FiniteSets

VARIABLES pc, table, text, buffer_size, fd_in, str_buf, line_no, fd_out, result

vars == <<pc, table, text, buffer_size, fd_in, str_buf, line_no, fd_out, result>>

(***************************************************************************)
(* Characters and character classes.                                       *)
(***************************************************************************)
NL == "\n"

TAB == "\t"

IDSP == "U+3000"

MARGIN_BAR == "U+2551"

SENTINEL == "U+001F"

\* str.strip / str.rstrip without arguments remove these (str.isspace).
Whitespace == {" ", "\t", "\n", "\r", "U+3000", "U+001F"}

\* enders in reflow_file, and the first character class of reflow's first pass.
Enders == {"U+FF1A", "U+FF0C", "U+FF1B", "U+3002", "U+FF1F", "U+FF01",
           "U+300D", "U+300F", ".", ";", ":", "?"}

\* The second character class of reflow's second pass.
Starters == {"U+300C", "U+300E", "U+3000", "\t"}

\* The character class [T|X] that opens a CBETA margin.
MarginOpeners == {"T", "|", "X"}

\* The letters of the model and their case forms, <<lower, upper>>.
CasePairs == {<<"a", "A">>, <<"b", "B">>, <<"f", "F">>, <<"o", "O">>, <<"r", "R">>}

LowerChar(c) == IF \E p \in CasePairs : p[2] = c
                THEN (CHOOSE p \in CasePairs : p[2] = c)[1] ELSE c

UpperChar(c) == IF \E p \in CasePairs : p[1] = c
                THEN (CHOOSE p \in CasePairs : p[1] = c)[2] ELSE c

\* str.lower and str.upper.
lower(s) == [i \in 1..Len(s) |-> LowerChar(s[i])]

upper(s) == [i \in 1..Len(s) |-> UpperChar(s[i])]

(***************************************************************************)
(* The string operations of Python the code uses.                          *)
(***************************************************************************)
SeqsUpTo(S, n) == UNION {[1..k -> S] : k \in 0..n}

RECURSIVE Concat(_)
\* ''.join(parts)
Concat(parts) == IF Len(parts) = 0 THEN <<>> ELSE Head(parts) \o Concat(Tail(parts))

\* sub in s
Contains(s, sub) ==
    \E i \in 0..(Len(s) - Len(sub)) : SubSeq(s, i + 1, i + Len(sub)) = sub

\* s.count(c) for a single character c
CountChar(s, c) == Cardinality({i \in 1..Len(s) : s[i] = c})

\* s.replace('', new): new before every character of s and at the end.
InsertEverywhere(s, new) ==
    LET n == Len(new) IN
    [k \in 1..(n + Len(s) * (n + 1)) |->
        IF k <= n THEN new[k]
        ELSE IF (k - n - 1) % (n + 1) = 0 THEN s[((k - n - 1) \div (n + 1)) + 1]
        ELSE new[(k - n - 1) % (n + 1)]]

RECURSIVE replace(_, _, _)
\* s.replace(old, new): every occurrence, found left to right, non-overlapping;
\* an empty old matches before every character and at the end.
replace(s, old, new) ==
    IF Len(old) = 0 THEN InsertEverywhere(s, new)
    ELSE IF Len(s) < Len(old) THEN s
    ELSE IF SubSeq(s, 1, Len(old)) = old
         THEN new \o replace(SubSeq(s, Len(old) + 1, Len(s)), old, new)
         ELSE <<Head(s)>> \o replace(Tail(s), old, new)

RECURSIVE split(_, _)
\* s.split(c) for a single character c: always at least one piece.
split(s, c) ==
    IF \A i \in 1..Len(s) : s[i] # c THEN <<s>>
    ELSE LET i == CHOOSE k \in 1..Len(s) : s[k] = c /\ \A j \in 1..(k - 1) : s[j] # c
         IN  <<SubSeq(s, 1, i - 1)>> \o split(SubSeq(s, i + 1, Len(s)), c)

RECURSIVE join(_, _)
\* c.join(parts)
join(parts, c) ==
    IF Len(parts) = 0 THEN <<>>
    ELSE IF Len(parts) = 1 THEN parts[1]
    ELSE parts[1] \o <<c>> \o join(Tail(parts), c)

RECURSIVE rstrip(_)
\* s.rstrip()
rstrip(s) ==
    IF Len(s) > 0 /\ s[Len(s)] \in Whitespace THEN rstrip(SubSeq(s, 1, Len(s) - 1)) ELSE s

RECURSIVE lstrip(_)
lstrip(s) == IF Len(s) > 0 /\ Head(s) \in Whitespace THEN lstrip(Tail(s)) ELSE s

\* s.strip()
strip(s) == lstrip(rstrip(s))

RECURSIVE readlines(_)
\* Iterating a file object: the lines of the stream, each keeping its line break.
readlines(s) ==
    IF Len(s) = 0 THEN <<>>
    ELSE IF \A i \in 1..Len(s) : s[i] # NL THEN <<s>>
    ELSE LET i == CHOOSE k \in 1..Len(s) : s[k] = NL /\ \A j \in 1..(k - 1) : s[j] # NL
         IN  <<SubSeq(s, 1, i)>> \o readlines(SubSeq(s, i + 1, Len(s)))

(***************************************************************************)
(* read_table                                                              *)
(***************************************************************************)
\* rec = [f.strip() for f in line.split('|')]
ParseRecord(line) ==
    LET fs == split(line, "|") IN [i \in 1..Len(fs) |-> strip(fs[i])]

\* A line is empty as it stands, without trimming.
IsBlankNoStrip(line) == Len(line) = 0

\* line.strip() != '' is what lets a line raise; its negation skips the line.
IsBlank(line) == Len(strip(line)) = 0

\* elif width == -1 and len(rec) > 1
EstablishesWidth(width, rec) == width = -1 /\ Len(rec) > 1

RECURSIVE ReadLoop(_, _, _, _)
\* The loop of read_table from line k on, with the table and width so far.
ReadLoop(lines, k, tab, width) ==
    IF k > Len(lines) THEN [raised |-> FALSE, tab |-> tab, error |-> <<>>]
    ELSE LET line == lines[k]
             rec == ParseRecord(line)
         IN  IF width # -1 /\ width = Len(rec)
             THEN ReadLoop(lines, k + 1, Append(tab, rec), width)
             ELSE IF EstablishesWidth(width, rec)
             THEN ReadLoop(lines, k + 1, Append(tab, rec), Len(rec))
             ELSE IF ~IsBlank(line)
             THEN [raised |-> TRUE, tab |-> <<>>, error |-> strip(line)]
             ELSE ReadLoop(lines, k + 1, tab, width)

\* read_table(table_fd) on a file whose content is src: either the table, or
\* RuntimeError('Table error: ' + error) and no table.
read_table(src) == ReadLoop(split(src, NL), 1, <<>>, -1)

(***************************************************************************)
(* Specification of read_table: a table source is drawn, read_table is     *)
(* called on it once.                                                      *)
(***************************************************************************)
MaxTableSrc == 6

TableSrcAlphabet == {"a", " ", "|", NL}

NoDriver ==
    /\ buffer_size = 0
    /\ fd_in = <<>>
    /\ str_buf = <<>>
    /\ line_no = 0
    /\ fd_out = <<>>

InitTable ==
    /\ pc = "call"
    /\ text \in SeqsUpTo(TableSrcAlphabet, MaxTableSrc)
    /\ table = <<>>
    /\ result = <<>>
    /\ NoDriver

CallReadTable ==
    /\ pc = "call"
    /\ result' = <<read_table(text)>>
    /\ pc' = "return"
    /\ UNCHANGED <<table, text, buffer_size, fd_in, str_buf, line_no, fd_out>>

NextTable == CallReadTable

SpecTable == InitTable /\ [][NextTable]_vars

\* The lines of a table source and the ones that are not blank.
SrcLines == split(text, NL)

NonBlank == {k \in 1..Len(SrcLines) : \E i \in 1..Len(SrcLines[k]) : SrcLines[k][i] \notin Whitespace}

FieldCount(line) == CountChar(line, "|") + 1

FirstNonBlank == CHOOSE k \in NonBlank : \A j \in NonBlank : k <= j

\* The k-th smallest element of a set of line numbers.
RECURSIVE Nth(_, _)
Nth(S, k) ==
    LET m == CHOOSE x \in S : \A y \in S : x <= y
    IN  IF k = 1 THEN m ELSE Nth(S \ {m}, k - 1)

MustRaise ==
    /\ NonBlank # {}
    /\ \/ FieldCount(SrcLines[FirstNonBlank]) < 2
       \/ \E k \in NonBlank : FieldCount(SrcLines[k]) # FieldCount(SrcLines[FirstNonBlank])

\* C1: read_table either raises, returning no table, or returns the trimmed
\* field lists of exactly the non-blank lines in input order, every record as
\* wide as the first non-blank line, at least 2; it raises exactly when the
\* first non-blank line has fewer than 2 fields or a later non-blank line has
\* another field count, so blank lines never raise.
C1_ReadTableTotalOrError ==
    pc = "return" =>
        LET r == result[1] IN
        /\ r.raised <=> MustRaise
        /\ r.raised => r.tab = <<>>
        /\ ~r.raised =>
            /\ Len(r.tab) = Cardinality(NonBlank)
            /\ \A j \in 1..Len(r.tab) :
                /\ r.tab[j] = ParseRecord(SrcLines[Nth(NonBlank, j)])
                /\ Len(r.tab[j]) = FieldCount(SrcLines[FirstNonBlank])
                /\ Len(r.tab[j]) >= 2

\* A table of two records was returned from a source that has blank lines
\* before and after the line that sets the width.
C1_Witness ==
    /\ pc = "return"
    /\ ~result[1].raised
    /\ Len(result[1].tab) = 2
    /\ Len(SrcLines) >= 4
    /\ 1 \notin NonBlank

\* A source whose later line has another width was refused.
C1_WitnessRaise ==
    /\ pc = "return"
    /\ result[1].raised
    /\ Cardinality(NonBlank) >= 2
    /\ FieldCount(SrcLines[FirstNonBlank]) >= 2

(***************************************************************************)
(* reflow                                                                  *)
(***************************************************************************)
\* '^[T|X].*?U+2551' on one line: the opener, then as few characters as
\* possible up to the first margin bar, are removed.
StripMarginLine(line) ==
    IF /\ Len(line) > 0
       /\ Head(line) \in MarginOpeners
       /\ \E j \in 2..Len(line) : line[j] = MARGIN_BAR
    THEN LET j == CHOOSE k \in 2..Len(line) :
                      line[k] = MARGIN_BAR /\ \A m \in 2..(k - 1) : line[m] # MARGIN_BAR
         IN  SubSeq(line, j + 1, Len(line))
    ELSE line

\* re.sub(r'^[T|X].*?U+2551', '', text, flags=re.M)
StripMargins(s) ==
    LET ls == split(s, NL) IN join([k \in 1..Len(ls) |-> StripMarginLine(ls[k])], NL)

\* The longest run of characters after the full-width space of a poetry line.
PoetryMax == 15

\* '^U+3000(.{1,15})$' on one line: a full-width space is appended.
SeparatePoetryLine(line) ==
    IF Len(line) > 0 /\ Head(line) = IDSP /\ Len(line) - 1 >= 1 /\ Len(line) - 1 <= PoetryMax
    THEN line \o <<IDSP>>
    ELSE line

\* re.sub(r'^U+3000(.{1,15})$', 'U+3000\\1U+3000', text, flags=re.M)
SeparatePoetry(s) ==
    LET ls == split(s, NL) IN join([k \in 1..Len(ls) |-> SeparatePoetryLine(ls[k])], NL)

\* The text with its line breaks left in.
CollapseKeepsBreaks(s) == s

\* text.replace('\n', '')
Collapse(s) == replace(s, <<NL>>, <<>>)

\* ([enders])([^enders])
EnderThenNonEnder(x, y) == x \in Enders /\ y \notin Enders

RECURSIVE BreakAfterEnders(_)
\* The first re.sub of the punctuation step: matches are found left to right
\* and do not overlap; each gets a line break between its two characters.
BreakAfterEnders(s) ==
    IF Len(s) < 2 THEN s
    ELSE IF EnderThenNonEnder(s[1], s[2])
         THEN <<s[1], NL, s[2]>> \o BreakAfterEnders(SubSeq(s, 3, Len(s)))
         ELSE <<s[1]>> \o BreakAfterEnders(Tail(s))

\* The second class without its line break: a break the first pass put in
\* could then be followed by a second one.
BreakThenStarter(x, y) == x \notin (Starters \cup Enders) /\ y \in Starters

\* ([^starters enders \n])([starters])
NonStarterThenStarter(x, y) ==
    x \notin (Starters \cup Enders \cup {NL}) /\ y \in Starters

RECURSIVE BreakBeforeStarters(_)
\* The second re.sub of the punctuation step, over the text the first one left.
BreakBeforeStarters(s) ==
    IF Len(s) < 2 THEN s
    ELSE IF NonStarterThenStarter(s[1], s[2])
         THEN <<s[1], NL, s[2]>> \o BreakBeforeStarters(SubSeq(s, 3, Len(s)))
         ELSE <<s[1]>> \o BreakBeforeStarters(Tail(s))

\* if len(text) > 0 and text[-1] != '\n': text += '\n'
AdjustNewlines(s) == IF Len(s) > 0 /\ s[Len(s)] # NL THEN s \o <<NL>> ELSE s

\* reflow(text)
reflow(s) ==
    AdjustNewlines(BreakBeforeStarters(BreakAfterEnders(
        Collapse(SeparatePoetry(StripMargins(s))))))

(***************************************************************************)
(* Specification of reflow: a text is drawn, reflow is called on it, and   *)
(* then once more on what it returned.                                     *)
(***************************************************************************)
MaxReflowText == 4

ReflowAlphabet == {"a", ".", IDSP, NL, "T", MARGIN_BAR}

InitReflow ==
    /\ pc = "call"
    /\ text \in SeqsUpTo(ReflowAlphabet, MaxReflowText)
    /\ table = <<>>
    /\ result = <<>>
    /\ NoDriver

CallReflow ==
    /\ pc = "call"
    /\ result = <<>>
    /\ result' = <<reflow(text)>>
    /\ pc' = "return"
    /\ UNCHANGED <<table, text, buffer_size, fd_in, str_buf, line_no, fd_out>>

CallReflowAgain ==
    /\ pc = "return"
    /\ Len(result) = 1
    /\ result' = Append(result, reflow(result[1]))
    /\ UNCHANGED <<pc, table, text, buffer_size, fd_in, str_buf, line_no, fd_out>>

NextReflow == CallReflow \/ CallReflowAgain

SpecReflow == InitReflow /\ [][NextReflow]_vars

\* C6 as stated: for every text t, reflow(reflow(t)) = reflow(t).
C6_ReflowIdempotent == Len(result) = 2 => result[2] = result[1]

\* A line on which margin stripping applies: an opener with a margin bar after it.
HasMarginLine(s) ==
    \E k \in 1..Len(split(s, NL)) :
        LET line == split(s, NL)[k] IN
        /\ Len(line) > 0
        /\ line[1] \in {"T", "|", "X"}
        /\ \E j \in 2..Len(line) : line[j] = "U+2551"

\* A line on which poetry spacing applies: a full-width space and 1 to 15 more.
HasPoetryLine(s) ==
    \E k \in 1..Len(split(s, NL)) :
        LET line == split(s, NL)[k] IN
        /\ Len(line) >= 2 /\ Len(line) <= 16
        /\ line[1] = "U+3000"

\* C6 amended: reflow(reflow(t)) = reflow(t) for every text t such that no line
\* of reflow(t) is a margin line (T, | or X with a margin bar after it on the
\* line) or a short poetry line (a full-width space and 1 to 15 more
\* characters); on such one-clause-per-line text reflow changes nothing.
C6_ReflowIdempotentWithoutMarginOrPoetry ==
    (Len(result) = 2 /\ ~HasMarginLine(result[1]) /\ ~HasPoetryLine(result[1]))
        => result[2] = result[1]

\* reflow broke a text of several lines into other lines, none of them a
\* margin or poetry line, and was run again on the result.
C6_Witness ==
    /\ Len(result) = 2
    /\ ~HasMarginLine(result[1]) /\ ~HasPoetryLine(result[1])
    /\ CountChar(text, NL) >= 1
    /\ CountChar(result[1], NL) >= 3
    /\ result[1] # text

\* The text reflow's punctuation step starts from.
Collapsed == Collapse(SeparatePoetry(StripMargins(text)))

\* One classification of an adjacent pair of the collapsed text.
BreakBetween(x, y) ==
    \/ x \in Enders /\ y \notin Enders
    \/ x \notin Enders /\ x \notin Starters /\ y \in Starters

\* The collapsed text with one line break at every classified position and
\* one at the end.
Classified(c) ==
    Concat([k \in 1..Len(c) |->
        IF k = Len(c) \/ BreakBetween(c[k], c[k + 1]) THEN <<c[k], NL>> ELSE <<c[k]>>])

\* C9: reflow's two passes put a line break between adjacent characters x, y
\* of the collapsed text exactly when x is an ender and y is not, or x is
\* neither ender nor starter and y is a starter; one break at most per
\* position, no other character changed, and a non-empty result ends with
\* exactly one line break and has no empty line.
C9_TwoPassesAreOneClassification ==
    Len(result) >= 1 =>
        LET r == result[1] IN
        /\ r = Classified(Collapsed)
        /\ r # <<>> =>
            /\ r[Len(r)] = NL
            /\ r[1] # NL
            /\ \A i \in 1..(Len(r) - 1) : ~(r[i] = NL /\ r[i + 1] = NL)

\* Both passes acted on one text: an ender before a starter (first pass), a
\* plain character before a starter (second pass).
C9_Witness ==
    /\ Len(result) >= 1
    /\ \E i \in 1..(Len(Collapsed) - 1) :
           Collapsed[i] \in Enders /\ Collapsed[i + 1] \in Starters
    /\ \E i \in 1..(Len(Collapsed) - 1) :
           Collapsed[i] \notin (Enders \cup Starters) /\ Collapsed[i + 1] \in Starters

(***************************************************************************)
(* reflow_file                                                             *)
(***************************************************************************)
\* buffer_size in reflow_file
reflow_file_buffer_size == 1000

\* The positions i (0-based, as in the code) the backward scan accepts:
\* str_buf[i-1] in enders and str_buf[i] not in enders, for 0 < i < len.
SplitPoints(buf) ==
    {i \in 1..(Len(buf) - 1) : buf[i] \in Enders /\ buf[i + 1] \notin Enders}

\* The body of "for line in fd_in" for one line.
ReflowFileLine ==
    /\ pc = "loop"
    /\ fd_in # <<>>
    /\ LET n == line_no + 1
           buf == str_buf \o Head(fd_in)
       IN  /\ line_no' = n
           /\ fd_in' = Tail(fd_in)
           /\ IF n % buffer_size = 0 /\ SplitPoints(buf) # {}
              THEN LET i == CHOOSE k \in SplitPoints(buf) : \A j \in SplitPoints(buf) : j <= k
                   IN  /\ fd_out' = fd_out \o reflow(SubSeq(buf, 1, i))
                       /\ str_buf' = SubSeq(buf, i + 1, Len(buf))
              ELSE /\ fd_out' = fd_out
                   /\ str_buf' = buf
    /\ UNCHANGED <<pc, table, text, buffer_size, result>>

\* After the loop: if len(str_buf) > 0: fd_out.write(reflow(str_buf))
ReflowFileEnd ==
    /\ pc = "loop"
    /\ fd_in = <<>>
    /\ fd_out' = IF Len(str_buf) > 0 THEN fd_out \o reflow(str_buf) ELSE fd_out
    /\ pc' = "done"
    /\ UNCHANGED <<table, text, buffer_size, fd_in, str_buf, line_no, result>>

(***************************************************************************)
(* Specification of reflow_file: an input stream and a batch size are      *)
(* drawn (the code's own 1000 among them), the driver runs line by line.   *)
(***************************************************************************)
MaxBatch == 2

MaxStream == 4

ReflowStreamAlphabet == {"a", ".", NL}

InitReflowFile ==
    /\ pc = "loop"
    /\ text \in SeqsUpTo(ReflowStreamAlphabet, MaxStream)
    /\ buffer_size \in (1..MaxBatch) \cup {reflow_file_buffer_size}
    /\ fd_in = readlines(text)
    /\ str_buf = <<>>
    /\ line_no = 0
    /\ fd_out = <<>>
    /\ table = <<>>
    /\ result = <<>>

NextReflowFile == ReflowFileLine \/ ReflowFileEnd

SpecReflowFile == InitReflowFile /\ [][NextReflowFile]_vars

\* C3: whatever the batch size, everything reflow_file writes, concatenated,
\* is reflow of the whole input (so any two batch sizes write the same).
C3_ReflowFileBoundarySafe == pc = "done" => fd_out = reflow(text)

(***************************************************************************)
(* subst                                                                   *)
(***************************************************************************)
RECURSIVE replaceFirst(_, _, _)
\* s.replace(old, new, 1)
replaceFirst(s, old, new) ==
    IF Len(old) = 0 THEN new \o s
    ELSE IF Len(s) < Len(old) THEN s
    ELSE IF SubSeq(s, 1, Len(old)) = old
         THEN new \o SubSeq(s, Len(old) + 1, Len(s))
         ELSE <<Head(s)>> \o replaceFirst(Tail(s), old, new)

\* One record applied to the first occurrence of each form only.
SubstRecordFirstOnly(rec, s) ==
    LET t1 == replaceFirst(s, rec[1], rec[2])
        t2 == replaceFirst(t1, lower(rec[1]), lower(rec[2]))
    IN  replaceFirst(t2, upper(rec[1]), upper(rec[2]))

\* One record applied without its uppercase form.
SubstRecordNoUpper(rec, s) ==
    LET t1 == replace(s, rec[1], rec[2])
    IN  replace(t1, lower(rec[1]), lower(rec[2]))

\* The body of subst's loop for one record (term1, term2).
SubstRecord(rec, s) ==
    LET t1 == replace(s, rec[1], rec[2])
        t2 == replace(t1, lower(rec[1]), lower(rec[2]))
    IN  replace(t2, upper(rec[1]), upper(rec[2]))

RECURSIVE subst(_, _)
\* subst(table, text)
subst(tab, s) == IF Len(tab) = 0 THEN s ELSE subst(Tail(tab), SubstRecord(Head(tab), s))

(***************************************************************************)
(* Specification of subst: a two-column table and a text are drawn, subst  *)
(* is called on the text, and then once more on what it returned.  The     *)
(* tables are ones read_table returns; the case-variant scenario of the    *)
(* specification is one more input.                                        *)
(***************************************************************************)
MaxRecs == 2

MaxSubstText == 3

SubstLetters == {"a", "A", "b"}

\* The tables drawn: a source term is one letter, a replacement value is empty
\* or one letter.  (A table with an empty source term is outside both C5
\* preconditions, the empty term being a substring of every value.)
SubstTerms == {<<c>> : c \in SubstLetters}

SubstValues == {<<>>} \cup {<<c>> : c \in SubstLetters}

SubstTables == SeqsUpTo(SubstTerms \X SubstValues, MaxRecs)

ScenarioTable == << <<<<"f", "o", "o">>, <<"b", "a", "r">>>> >>

ScenarioText == <<"F", "o", "o", " ", "F", "O", "O", " ", "f", "o", "o">>

InitSubst ==
    /\ pc = "call"
    /\ \/ table \in SubstTables /\ text \in SeqsUpTo(SubstLetters, MaxSubstText)
       \/ table = ScenarioTable /\ text = ScenarioText
    /\ result = <<>>
    /\ NoDriver

CallSubst ==
    /\ pc = "call"
    /\ result = <<>>
    /\ result' = <<subst(table, text)>>
    /\ pc' = "return"
    /\ UNCHANGED <<table, text, buffer_size, fd_in, str_buf, line_no, fd_out>>

CallSubstAgain ==
    /\ pc = "return"
    /\ Len(result) = 1
    /\ result' = Append(result, subst(table, result[1]))
    /\ UNCHANGED <<pc, table, text, buffer_size, fd_in, str_buf, line_no, fd_out>>

NextSubst == CallSubst \/ CallSubstAgain

SpecSubst == InitSubst /\ [][NextSubst]_vars

\* No source term of the table is a substring of any replacement value.
NoTermInReplacement(tab) ==
    \A i, j \in 1..Len(tab) : ~Contains(tab[j][2], tab[i][1])

\* C5 as stated: if no source term is a substring of any replacement value,
\* subst(table, subst(table, text)) = subst(table, text).
C5_SubstIdempotent ==
    (Len(result) = 2 /\ NoTermInReplacement(table)) => result[2] = result[1]

\* The characters of the three forms subst uses of a term.
FormChars(term) ==
    {term[i] : i \in 1..Len(term)}
        \cup {lower(term)[i] : i \in 1..Len(term)}
        \cup {upper(term)[i] : i \in 1..Len(term)}

\* All terms and replacements are non-empty, and no character of a form of a
\* source term is a character of a form of a replacement value.
FormsDisjoint(tab) ==
    /\ \A i \in 1..Len(tab) : Len(tab[i][1]) > 0 /\ Len(tab[i][2]) > 0
    /\ \A i, j \in 1..Len(tab) : FormChars(tab[i][1]) \cap FormChars(tab[j][2]) = {}

\* C5 amended: subst(table, subst(table, text)) = subst(table, text) for every
\* two-column table whose source terms and replacement values are all
\* non-empty and in which no character of a source term, of its lowercase or
\* of its uppercase form occurs in a replacement value or in its lowercase or
\* uppercase form.
C5_SubstIdempotentDisjointForms ==
    (Len(result) = 2 /\ FormsDisjoint(table)) => result[2] = result[1]

\* subst with a two-record table of disjoint forms changed a text in which a
\* term occurs several times, and was run again on the result.
C5_Witness ==
    /\ Len(result) = 2
    /\ FormsDisjoint(table)
    /\ Len(table) = 2
    /\ Len(text) = 3
    /\ \A i \in 1..3 : <<text[i]>> \in {table[1][1], upper(table[1][1])}
    /\ result[1] # text

\* C8 as stated: [[foo, bar]] on "Foo FOO foo" gives "Bar BAR bar".
C8_CaseVariantsAllReplaced ==
    (Len(result) >= 1 /\ table = ScenarioTable /\ text = ScenarioText)
        => result[1] = <<"B", "a", "r", " ", "B", "A", "R", " ", "b", "a", "r">>

\* C8 amended: [[foo, bar]] on "Foo FOO foo" gives "Foo BAR bar": the term as
\* written, its lowercase and its uppercase form are replaced by the matching
\* form of the replacement; the capitalised "Foo" is none of them and stays.
C8_ThreeFormsReplaced ==
    (Len(result) >= 1 /\ table = ScenarioTable /\ text = ScenarioText)
        => result[1] = <<"F", "o", "o", " ", "B", "A", "R", " ", "b", "a", "r">>

\* subst has returned on the scenario's table and text.
C8_Witness ==
    /\ Len(result) >= 1
    /\ table = ScenarioTable
    /\ text = ScenarioText
    /\ result[1] # text

(***************************************************************************)
(* subst_file                                                              *)
(***************************************************************************)
\* buffer_size in subst_file
subst_file_buffer_size == 1000

\* The body of "for line in fd_in" for one line.
SubstFileLine ==
    /\ pc = "loop"
    /\ fd_in # <<>>
    /\ LET buf == str_buf \o Head(fd_in)
       IN  IF line_no % buffer_size = 0
           THEN /\ fd_out' = fd_out \o subst(table, buf)
                /\ str_buf' = <<>>
           ELSE /\ fd_out' = fd_out
                /\ str_buf' = buf
    /\ line_no' = line_no + 1
    /\ fd_in' = Tail(fd_in)
    /\ UNCHANGED <<pc, table, text, buffer_size, result>>

\* After the loop: fd_out.write(subst(table, str_buf))
SubstFileEnd ==
    /\ pc = "loop"
    /\ fd_in = <<>>
    /\ fd_out' = fd_out \o subst(table, str_buf)
    /\ pc' = "done"
    /\ UNCHANGED <<table, text, buffer_size, fd_in, str_buf, line_no, result>>

(***************************************************************************)
(* Specification of subst_file: a two-column table read_table returns      *)
(* (one record at most, each field empty or one letter), an input stream   *)
(* and a batch size are drawn (the code's own 1000 among them).            *)
(***************************************************************************)
MaxDriverRecs == 1

DriverLetters == {"a", "b"}

DriverFields == {<<>>} \cup {<<c>> : c \in DriverLetters}

StreamAlphabet == {"a", NL}

InitSubstFile ==
    /\ pc = "loop"
    /\ table \in SeqsUpTo(DriverFields \X DriverFields, MaxDriverRecs)
    /\ text \in SeqsUpTo(StreamAlphabet, MaxStream)
    /\ buffer_size \in (1..MaxBatch) \cup {subst_file_buffer_size}
    /\ fd_in = readlines(text)
    /\ str_buf = <<>>
    /\ line_no = 1
    /\ fd_out = <<>>
    /\ result = <<>>

NextSubstFile == SubstFileLine \/ SubstFileEnd

SpecSubstFile == InitSubstFile /\ [][NextSubstFile]_vars

\* C7: for every two-column table read_table can return, every input and
\* every batch size, everything subst_file writes, concatenated, is subst of
\* the whole input.
C7_SubstFileIsSubst == pc = "done" => fd_out = subst(table, text)

(***************************************************************************)
(* vocab, tr_raw, tr_fmt                                                   *)
(***************************************************************************)
RECURSIVE VocabLoop(_, _)
\* The loop of vocab over the records left, with the copy of the text so far.
VocabLoop(tab, text_copy) ==
    IF Len(tab) = 0 THEN <<>>
    ELSE IF Contains(text_copy, Head(tab)[1])
         THEN <<Head(tab)>>
                  \o VocabLoop(Tail(tab), replace(text_copy, Head(tab)[1], <<SENTINEL>>))
         ELSE VocabLoop(Tail(tab), text_copy)

\* vocab(table, text)
vocab(tab, s) == VocabLoop(tab, s)

(***************************************************************************)
(* tr_raw's rule loop is modelled on cells: a character together with the  *)
(* position it had in the source text tr_raw starts from (src), or src = 0 *)
(* for a character a replacement inserted.  The characters are what the    *)
(* code computes; src only records where they came from.                   *)
(***************************************************************************)
FromSource(s) == [i \in 1..Len(s) |-> [ch |-> s[i], src |-> i]]

InsertedCells(s) == [i \in 1..Len(s) |-> [ch |-> s[i], src |-> 0]]

Chars(cells) == [i \in 1..Len(cells) |-> cells[i].ch]

RECURSIVE replaceCells(_, _, _)
\* trans.replace(old, new) on cells: old is matched against the characters.
replaceCells(cells, old, new) ==
    IF Len(old) = 0 THEN InsertEverywhere(cells, new)
    ELSE IF Len(cells) < Len(old) THEN cells
    ELSE IF Chars(SubSeq(cells, 1, Len(old))) = old
         THEN new \o replaceCells(SubSeq(cells, Len(old) + 1, Len(cells)), old, new)
         ELSE <<Head(cells)>> \o replaceCells(Tail(cells), old, new)

RECURSIVE MatchSpans(_, _)
\* The occurrences of old that replaceCells(cells, old, _) replaces, each as
\* the sequence of the src marks of its cells.
MatchSpans(cells, old) ==
    IF Len(old) = 0 \/ Len(cells) < Len(old) THEN <<>>
    ELSE IF Chars(SubSeq(cells, 1, Len(old))) = old
         THEN <<[i \in 1..Len(old) |-> cells[i].src]>>
                  \o MatchSpans(SubSeq(cells, Len(old) + 1, Len(cells)), old)
         ELSE MatchSpans(Tail(cells), old)

\* trans.replace(rec[0], '\x1f' + rec[col_no] + '\x1f')
ApplyRule(rec, col, cells) ==
    replaceCells(cells, rec[1], InsertedCells(<<SENTINEL>> \o rec[col] \o <<SENTINEL>>))

RECURSIVE ApplyRules(_, _, _)
\* for rec in rules: trans = trans.replace(...)
ApplyRules(rules, col, cells) ==
    IF Len(rules) = 0 THEN cells
    ELSE ApplyRules(Tail(rules), col, ApplyRule(Head(rules), col, cells))

\* The three replacements that remove the sentinels of a translated column.
RemoveSentinels(trans) ==
    LET t1 == replace(trans, <<SENTINEL, NL>>, <<NL>>)
        t2 == replace(t1, <<SENTINEL, SENTINEL>>, <<" ">>)
    IN  replace(t2, <<SENTINEL>>, <<" ">>)

\* text = text.replace('\x1f', '')
CleanSource(s) == replace(s, <<SENTINEL>>, <<>>)

\* tr_raw(table, text): the source text and one translation per target column.
tr_raw(tab, s) ==
    LET rules == vocab(tab, s)
        src == CleanSource(s)
    IN  [c \in 1..Len(tab[1]) |->
            IF c = 1 THEN src
            ELSE RemoveSentinels(Chars(ApplyRules(rules, c, FromSource(src))))]

\* collection[i] = collection[i].rstrip().split('\n')
ColumnLines(tab, s) ==
    LET collection == tr_raw(tab, s)
    IN  [c \in 1..Len(collection) |-> split(rstrip(collection[c]), NL)]

\* tr_fmt(table, text, start).  The listing is a sequence of groups, one per
\* source line; a group is one entry per column, [line, col, text] standing
\* for the line '%d.%d|%s\n', and the blank line that ends the group.
\* collection[col_idx][line_no] raises IndexError when a column has fewer
\* lines than the source column.
tr_fmt(tab, s, start) ==
    LET cols == ColumnLines(tab, s)
    IN  IF \E c \in 1..Len(cols) : Len(cols[c]) < Len(cols[1])
        THEN [raised |-> TRUE, listing |-> <<>>]
        ELSE [raised |-> FALSE,
              listing |-> [k \in 1..Len(cols[1]) |->
                  [c \in 1..Len(tab[1]) |->
                      [line |-> start + (k - 1), col |-> c, text |-> cols[c][k]]]]]

(***************************************************************************)
(* Specification of tr_raw and tr_fmt: a table read_table returns (two or  *)
(* three columns, a source term of one letter, each target term empty or   *)
(* one letter) and a sentinel-free text are drawn; tr_raw or tr_fmt        *)
(* (start = 1) is called on them.                                          *)
(***************************************************************************)
MaxTrRecs == 2

MaxWidth == 3

MaxTrText == 3

TrRecords(w) == {r \in [1..w -> DriverFields] : Len(r[1]) > 0}

TrTables == UNION {SeqsUpTo(TrRecords(w), MaxTrRecs) \ {<<>>} : w \in 2..MaxWidth}

TrAlphabet == {"a", "b", NL}

InitTr ==
    /\ pc = "call"
    /\ table \in TrTables
    /\ text \in SeqsUpTo(TrAlphabet, MaxTrText)
    /\ result = <<>>
    /\ NoDriver

CallTrRaw ==
    /\ pc = "call"
    /\ result' = <<tr_raw(table, text)>>
    /\ pc' = "tr_raw"
    /\ UNCHANGED <<table, text, buffer_size, fd_in, str_buf, line_no, fd_out>>

CallTrFmt ==
    /\ pc = "call"
    /\ result' = <<tr_fmt(table, text, 1)>>
    /\ pc' = "tr_fmt"
    /\ UNCHANGED <<table, text, buffer_size, fd_in, str_buf, line_no, fd_out>>

NextTr == CallTrRaw \/ CallTrFmt

SpecTr == InitTr /\ [][NextTr]_vars

\* C4: for every table read_table can return and every text, every
\* translated column of tr_raw has, after rstrip, as many lines as the source
\* column, so tr_fmt returns without raising and its listing has (source line
\* count) x (table column count) entries.
C4_TranslatorTotalAndAligned ==
    /\ pc = "tr_raw" =>
           \A c \in 1..Len(result[1]) :
               Len(split(rstrip(result[1][c]), NL)) = Len(split(rstrip(result[1][1]), NL))
    /\ pc = "tr_fmt" =>
           /\ ~result[1].raised
           /\ Len(result[1].listing) = Len(split(rstrip(CleanSource(text)), NL))
           /\ \A k \in 1..Len(result[1].listing) : Len(result[1].listing[k]) = Len(table[1])

\* The translated text of column col after the first k applicable rules.
TransAfter(k, col) ==
    ApplyRules(SubSeq(vocab(table, text), 1, k), col, FromSource(CleanSource(text)))

\* The occurrences rule k replaces while tr_raw translates column col.
RuleMatches(k, col) == MatchSpans(TransAfter(k - 1, col), vocab(table, text)[k][1])

\* A replaced occurrence that is an occurrence of the term in the source
\* text: consecutive characters of the source, none of them inserted.
IsSourceOccurrence(span) ==
    /\ \A i \in 1..Len(span) : span[i] > 0
    /\ \A i \in 1..(Len(span) - 1) : span[i + 1] = span[i] + 1

\* C10: while tr_raw applies the applicable rules in table order for a
\* column, no rule's source term is matched inside a target term an earlier
\* rule inserted, no two replacements take the same characters of the source,
\* and every replacement is of an occurrence of the rule's source term in
\* the source text.
C10_SentinelProtectsReplacedText ==
    pc = "tr_raw" =>
        \A col \in 2..Len(table[1]) :
            \A k \in 1..Len(vocab(table, text)) :
                \A m \in 1..Len(RuleMatches(k, col)) :
                    /\ IsSourceOccurrence(RuleMatches(k, col)[m])
                    /\ \A k2 \in 1..k : \A m2 \in 1..Len(RuleMatches(k2, col)) :
                           (k2 # k \/ m2 # m) =>
                               \A i \in 1..Len(RuleMatches(k, col)[m]) :
                               \A j \in 1..Len(RuleMatches(k2, col)[m2]) :
                                   RuleMatches(k, col)[m][i] # RuleMatches(k2, col)[m2][j]
                                       \/ RuleMatches(k, col)[m][i] = 0

(***************************************************************************)
(* tr_file                                                                 *)
(***************************************************************************)
\* buffer_size in tr_file
tr_file_buffer_size == 100

\* The body of "for line in fd_in" for one line.  An IndexError of tr_fmt
\* ends the driver: the line has by then been taken from fd_in and appended
\* to str_buf; nothing is written and line_no is not advanced.
TrFileLine ==
    /\ pc = "loop"
    /\ fd_in # <<>>
    /\ LET buf == str_buf \o Head(fd_in)
           out == tr_fmt(table, buf, line_no - buffer_size + 1)
       IN  IF line_no % buffer_size = 0
           THEN IF out.raised
                THEN /\ pc' = "raised"
                     /\ str_buf' = buf
                     /\ fd_in' = Tail(fd_in)
                     /\ UNCHANGED <<fd_out, line_no>>
                ELSE /\ fd_out' = fd_out \o out.listing
                     /\ str_buf' = <<>>
                     /\ line_no' = line_no + 1
                     /\ fd_in' = Tail(fd_in)
                     /\ pc' = pc
           ELSE /\ fd_out' = fd_out
                /\ str_buf' = buf
                /\ line_no' = line_no + 1
                /\ fd_in' = Tail(fd_in)
                /\ pc' = pc
    /\ UNCHANGED <<table, text, buffer_size, result>>

\* position = line_no - str_buf.count('\n')
Position(n, buf) == n - CountChar(buf, NL)

\* After the loop: fd_out.write(tr_fmt(table, str_buf, position))
TrFileEnd ==
    /\ pc = "loop"
    /\ fd_in = <<>>
    /\ LET out == tr_fmt(table, str_buf, Position(line_no, str_buf))
       IN  IF out.raised
           THEN pc' = "raised" /\ fd_out' = fd_out
           ELSE pc' = "done" /\ fd_out' = fd_out \o out.listing
    /\ UNCHANGED <<table, text, buffer_size, fd_in, str_buf, line_no, result>>

(***************************************************************************)
(* Specification of tr_file: a one-record table of two columns, an input   *)
(* stream of at least one character and a batch size are drawn (the code's *)
(* own 100 among them).                                                    *)
(***************************************************************************)
InitTrFile ==
    /\ pc = "loop"
    /\ table \in SeqsUpTo(TrRecords(2), MaxDriverRecs) \ {<<>>}
    /\ text \in SeqsUpTo(StreamAlphabet, MaxStream) \ {<<>>}
    /\ buffer_size \in (1..MaxBatch) \cup {tr_file_buffer_size}
    /\ fd_in = readlines(text)
    /\ str_buf = <<>>
    /\ line_no = 1
    /\ fd_out = <<>>
    /\ result = <<>>

NextTrFile == TrFileLine \/ TrFileEnd

SpecTrFile == InitTrFile /\ [][NextTrFile]_vars

\* Input line n of the stream, without its line break.
InputLine(n) == split(text, NL)[n]

\* C2: every listing entry '<n>.<c>|<text>' tr_file writes has
\* 1 <= n <= (number of input lines) and is about input line n: its source
\* column is that line, the number a single tr_fmt call over the whole input
\* with start = 1 gives it.
C2_TrFileNumbersLines ==
    \A g \in 1..Len(fd_out) : \A c \in 1..Len(fd_out[g]) :
        LET e == fd_out[g][c] IN
        /\ 1 <= e.line
        /\ e.line <= Len(readlines(text))
        /\ e.col = 1 => e.text = InputLine(e.line)
====
